---- MODULE Spec2Model ----
(***************************************************************************)
(* go-pglock: distributed locks on PostgreSQL session level advisory       *)
(* locks.  A Lock value binds a lock identifier to one dedicated           *)
(* connection taken from a database/sql pool; every method is one          *)
(* statement sent on that connection.  The advisory-lock counters live in  *)
(* the backend, per connection (session) and per identifier.               *)
(***************************************************************************)
EXTENDS Integers, FiniteSets, Sequences, TLC

\* ------------------------------------------------------------------ bounds
\* Lock values built in a run in which every caller has one Lock, and
\* levels of ownership a session stacks up.
NumLocks == 3
MaxCount == 2

\* Lock values.  There is one more than NumLocks, for the runs in which two
\* processes have two Locks each.
Locks == 1..(NumLocks + 1)

\* The Lock values of the runs in which every caller has one Lock.
SingleLocks == 1..NumLocks

\* Pooled connections (backend sessions): at most one is opened per Lock.
Conns == 1..(NumLocks + 1)

\* Lock identifiers the backend knows.  A statement reads and writes the
\* counts of its own identifier only.
Keys == {1, 2}

\* The identifier of the runs in which every Lock names the same resource.
SingleKey == {1}

VARIABLES
    lockState,  \* Lock value: "zero" (not built), "open", "closed" (conn done)
    lockId,     \* Lock.id, 0 while the Lock is not built
    lockConn,   \* Lock.conn: the pooled connection behind the *sql.Conn, 0 if none
    connState,  \* pool view of a connection: "closed", "idle" (free list), "inuse"
    excl,       \* backend: exclusive hold count per connection and identifier
    shared,     \* backend: shared hold count per connection and identifier
    pending,    \* statement blocked in the backend for this Lock, or "none"
    last,       \* the most recent return of a method: op, ok, err
    counter,    \* callers: the counter that the critical sections increment
    current,    \* callers: the value each goroutine read from the counter
    pc          \* callers: where the goroutine that owns the Lock stands

vars == <<lockState, lockId, lockConn, connState, excl, shared, pending, last,
          counter, current, pc>>

NoReturn == [op |-> "none", ok |-> FALSE, err |-> "nil"]

Return(op, ok, err) == [op |-> op, ok |-> ok, err |-> err]

TypeOK ==
    /\ lockState \in [Locks -> {"zero", "open", "closed"}]
    /\ lockId \in [Locks -> Keys \cup {0}]
    /\ lockConn \in [Locks -> Conns \cup {0}]
    /\ connState \in [Conns -> {"closed", "idle", "inuse"}]
    /\ excl \in [Conns -> [Keys -> 0..MaxCount]]
    /\ shared \in [Conns -> [Keys -> 0..MaxCount]]
    /\ pending \in [Locks -> {"none", "WaitAndLock", "WaitAndRLock"}]
    /\ last \in [op : {"none", "NewLock", "Lock", "RLock", "WaitAndLock",
                       "WaitAndRLock", "Unlock", "RUnlock", "Close", "method"},
                 ok : BOOLEAN,
                 err : {"nil", "canceled", "conndone", "failed"}]
    /\ counter \in 0..NumLocks
    /\ current \in [Locks -> 0..NumLocks]
    /\ pc \in [Locks -> {"start", "acquire", "blocked", "load", "store",
                         "unlock", "close", "done", "giveup", "skipped",
                         "waitconn", "new2", "acquire2", "blocked2",
                         "unlock2", "close2"}]

Init ==
    /\ lockState = [l \in Locks |-> "zero"]
    /\ lockId = [l \in Locks |-> 0]
    /\ lockConn = [l \in Locks |-> 0]
    /\ connState = [c \in Conns |-> "closed"]
    /\ excl = [c \in Conns |-> [k \in Keys |-> 0]]
    /\ shared = [c \in Conns |-> [k \in Keys |-> 0]]
    /\ pending = [l \in Locks |-> "none"]
    /\ last = NoReturn
    /\ counter = 0
    /\ current = [l \in Locks |-> 0]
    /\ pc = [l \in Locks |-> "start"]

\* ------------------------------------------------------- backend primitives
\* Variant: the conflict check looks at the exclusive holds on any identifier.
OtherHoldsExclusiveAnyKey(c, k) ==
    \E d \in Conns \ {c} : \E j \in Keys : excl[d][j] > 0

\* Another session holds the identifier in exclusive mode.
OtherHoldsExclusive(c, k) == \E d \in Conns \ {c} : excl[d][k] > 0

\* Another session holds the identifier in shared mode.
OtherHoldsShared(c, k) == \E d \in Conns \ {c} : shared[d][k] > 0

\* Variant: exclusive requests that do not look at shared holders.
ExclusiveAvailableIgnoringShared(c, k) == ~OtherHoldsExclusive(c, k)

\* Variant: a conflict check that does not exempt the session's own holds.
ExclusiveAvailableNotReentrant(c, k) ==
    \A d \in Conns : excl[d][k] = 0 /\ shared[d][k] = 0

\* Variant: exclusive requests that queue behind the requests of other
\* sessions, also when the session holds the lock already.
ExclusiveAvailableBehindWaiters(c, k) ==
    /\ ~OtherHoldsExclusive(c, k)
    /\ ~OtherHoldsShared(c, k)
    /\ ~\E m \in Locks : /\ pending[m] # "none"
                         /\ lockId[m] = k
                         /\ lockConn[m] # c

\* Variant: a session that holds the lock in shared mode is given the
\* exclusive mode whatever the other sessions hold.
ExclusiveAvailableToHolders(c, k) ==
    \/ shared[c][k] > 0
    \/ ~OtherHoldsExclusive(c, k) /\ ~OtherHoldsShared(c, k)

\* An exclusive request conflicts with all locks of other sessions.
ExclusiveAvailable(c, k) == ~OtherHoldsExclusive(c, k) /\ ~OtherHoldsShared(c, k)

\* Variant: shared requests that conflict with every lock of other sessions.
SharedAvailableAsExclusive(c, k) ==
    ~OtherHoldsExclusive(c, k) /\ ~OtherHoldsShared(c, k)

\* Variant: shared requests that give way to exclusive requests still waiting.
SharedAvailableBehindWaiters(c, k) ==
    /\ ~OtherHoldsExclusive(c, k)
    /\ ~\E m \in Locks : /\ pending[m] = "WaitAndLock"
                         /\ lockId[m] = k
                         /\ lockConn[m] # c

\* A shared request conflicts with exclusive locks of other sessions only.
SharedAvailable(c, k) == ~OtherHoldsExclusive(c, k)

\* One more level of ownership; requests stack within the session.
Acquire(count, c, k) == [count EXCEPT ![c][k] = @ + 1]

\* Variant: a release that drops every level of ownership at once.
ReleaseAll(count, c, k) == [count EXCEPT ![c][k] = 0]

\* Variant: a release that counts down without looking at the count.
ReleaseUnchecked(count, c, k) == [count EXCEPT ![c][k] = @ - 1]

\* One level of ownership less; releasing a lock that is not held changes nothing.
Release(count, c, k) == [count EXCEPT ![c][k] = IF @ > 0 THEN @ - 1 ELSE 0]

\* The end of a backend session cleans up every advisory lock it holds.
SessionEnd(count, c) == [count EXCEPT ![c] = [k \in Keys |-> 0]]

\* ------------------------------------------------------------------ NewLock
\* Variant: the pool hands out any open connection, in use or not.
FreeConnsInUseToo == {c \in Conns : connState[c] # "closed"}

\* db.Conn(ctx): a free connection of the pool, or else a newly opened one.
FreeConns == {c \in Conns : connState[c] = "idle"}

ClosedConns == {c \in Conns : connState[c] = "closed"}

NewConn == CHOOSE c \in ClosedConns : \A d \in ClosedConns : c <= d

\* Variant: the Lock is built with an identifier other than the one given.
NewLockOtherId(l, id) ==
    /\ lockState[l] = "zero"
    /\ \A m \in Locks : m < l => lockState[m] # "zero"
    /\ \E c \in {d \in Conns : connState[d] # "inuse"} :
          /\ connState' = [connState EXCEPT ![c] = "inuse"]
          /\ lockConn' = [lockConn EXCEPT ![l] = c]
    /\ lockState' = [lockState EXCEPT ![l] = "open"]
    /\ lockId' = [lockId EXCEPT ![l] = 3 - id]
    /\ last' = Return("NewLock", TRUE, "nil")
    /\ UNCHANGED <<excl, shared, pending>>

\* Lock values are built in the order of their numbers.
NewLock(l, id) ==
    /\ lockState[l] = "zero"
    /\ \A m \in Locks : m < l => lockState[m] # "zero"
    /\ \E c \in FreeConns \cup (IF ClosedConns = {} THEN {} ELSE {NewConn}) :
          /\ connState' = [connState EXCEPT ![c] = "inuse"]
          /\ lockConn' = [lockConn EXCEPT ![l] = c]
    /\ lockState' = [lockState EXCEPT ![l] = "open"]
    /\ lockId' = [lockId EXCEPT ![l] = id]
    /\ last' = Return("NewLock", TRUE, "nil")
    /\ UNCHANGED <<excl, shared, pending>>

\* Variant: Close on a closed Lock hands a connection back to the pool once
\* more, though it is in use by another Lock by now.
ConnDoneReleasesConn(l) ==
    /\ lockState[l] = "closed"
    /\ \E c \in Conns :
          /\ connState[c] = "inuse"
          /\ connState' = [connState EXCEPT ![c] = "idle"]
    /\ last' = Return("method", FALSE, "conndone")
    /\ UNCHANGED <<lockState, lockId, lockConn, excl, shared, pending>>

\* Any of the seven methods called on a Lock whose connection was closed:
\* the closed *sql.Conn answers sql.ErrConnDone and nothing is sent.
ConnDone(l) ==
    /\ lockState[l] = "closed"
    /\ last' = Return("method", FALSE, "conndone")
    /\ UNCHANGED <<lockState, lockId, lockConn, connState, excl, shared, pending>>

Callable(l) == lockState[l] = "open" /\ pending[l] = "none"

\* --------------------------------------------------------------------- Lock
\* Variant: the statement of the waiting call is sent: a refused request
\* stays queued in the backend.
LockWaits(l) ==
    /\ Callable(l)
    /\ LET c == lockConn[l]
           k == lockId[l]
       IN  IF ExclusiveAvailable(c, k)
           THEN /\ excl[c][k] < MaxCount
                /\ excl' = Acquire(excl, c, k)
                /\ last' = Return("Lock", TRUE, "nil")
                /\ pending' = pending
           ELSE /\ excl' = excl
                /\ last' = last
                /\ pending' = [pending EXCEPT ![l] = "WaitAndLock"]
    /\ UNCHANGED <<lockState, lockId, lockConn, connState, shared>>

Lock(l) ==
    /\ Callable(l)
    /\ LET c == lockConn[l]
           k == lockId[l]
       IN  IF ExclusiveAvailable(c, k)
           THEN /\ excl[c][k] < MaxCount
                /\ excl' = Acquire(excl, c, k)
                /\ last' = Return("Lock", TRUE, "nil")
           ELSE /\ excl' = excl
                /\ last' = Return("Lock", FALSE, "nil")
    /\ UNCHANGED <<lockState, lockId, lockConn, connState, shared, pending>>

\* -------------------------------------------------------------------- RLock
\* Variant: a refused request is counted all the same.
RLockCountsRefusal(l) ==
    /\ Callable(l)
    /\ shared[lockConn[l]][lockId[l]] < MaxCount
    /\ shared' = Acquire(shared, lockConn[l], lockId[l])
    /\ last' = Return("RLock", SharedAvailable(lockConn[l], lockId[l]), "nil")
    /\ UNCHANGED <<lockState, lockId, lockConn, connState, excl, pending>>

RLock(l) ==
    /\ Callable(l)
    /\ LET c == lockConn[l]
           k == lockId[l]
       IN  IF SharedAvailable(c, k)
           THEN /\ shared[c][k] < MaxCount
                /\ shared' = Acquire(shared, c, k)
                /\ last' = Return("RLock", TRUE, "nil")
           ELSE /\ shared' = shared
                /\ last' = Return("RLock", FALSE, "nil")
    /\ UNCHANGED <<lockState, lockId, lockConn, connState, excl, pending>>

\* -------------------------------------------------------------- WaitAndLock
\* The statement is sent; the call stays in ExecContext until the backend
\* answers or the context ends.
WaitAndLock(l) ==
    /\ Callable(l)
    /\ excl[lockConn[l]][lockId[l]] < MaxCount
    /\ pending' = [pending EXCEPT ![l] = "WaitAndLock"]
    /\ UNCHANGED <<lockState, lockId, lockConn, connState, excl, shared, last>>

\* Variant: the exclusive wait is answered under the shared conflict rule.
WaitAndLockReturnUnderSharedRule(l) ==
    /\ pending[l] = "WaitAndLock"
    /\ SharedAvailable(lockConn[l], lockId[l])
    /\ excl' = Acquire(excl, lockConn[l], lockId[l])
    /\ pending' = [pending EXCEPT ![l] = "none"]
    /\ last' = Return("WaitAndLock", TRUE, "nil")
    /\ UNCHANGED <<lockState, lockId, lockConn, connState, shared>>

\* Variant: the call returns nil whether or not the lock could be taken.
WaitAndLockReturnIgnoresHolders(l) ==
    /\ pending[l] = "WaitAndLock"
    /\ excl' = Acquire(excl, lockConn[l], lockId[l])
    /\ pending' = [pending EXCEPT ![l] = "none"]
    /\ last' = Return("WaitAndLock", TRUE, "nil")
    /\ UNCHANGED <<lockState, lockId, lockConn, connState, shared>>

\* pg_advisory_lock is granted and ExecContext returns nil.
WaitAndLockReturn(l) ==
    /\ pending[l] = "WaitAndLock"
    /\ ExclusiveAvailable(lockConn[l], lockId[l])
    /\ excl' = Acquire(excl, lockConn[l], lockId[l])
    /\ pending' = [pending EXCEPT ![l] = "none"]
    /\ last' = Return("WaitAndLock", TRUE, "nil")
    /\ UNCHANGED <<lockState, lockId, lockConn, connState, shared>>

\* ------------------------------------------------------------- WaitAndRLock
WaitAndRLock(l) ==
    /\ Callable(l)
    /\ shared[lockConn[l]][lockId[l]] < MaxCount
    /\ pending' = [pending EXCEPT ![l] = "WaitAndRLock"]
    /\ UNCHANGED <<lockState, lockId, lockConn, connState, excl, shared, last>>

\* Variant: the shared wait is answered under the exclusive conflict rule.
WaitAndRLockReturnUnderExclusiveRule(l) ==
    /\ pending[l] = "WaitAndRLock"
    /\ ExclusiveAvailable(lockConn[l], lockId[l])
    /\ shared' = Acquire(shared, lockConn[l], lockId[l])
    /\ pending' = [pending EXCEPT ![l] = "none"]
    /\ last' = Return("WaitAndRLock", TRUE, "nil")
    /\ UNCHANGED <<lockState, lockId, lockConn, connState, excl>>

\* pg_advisory_lock_shared is granted and ExecContext returns nil.
WaitAndRLockReturn(l) ==
    /\ pending[l] = "WaitAndRLock"
    /\ SharedAvailable(lockConn[l], lockId[l])
    /\ shared' = Acquire(shared, lockConn[l], lockId[l])
    /\ pending' = [pending EXCEPT ![l] = "none"]
    /\ last' = Return("WaitAndRLock", TRUE, "nil")
    /\ UNCHANGED <<lockState, lockId, lockConn, connState, excl>>

\* Variant: the call returns the context's error although the backend has
\* granted the request.
WaitCanceledGranted(l) ==
    /\ pending[l] # "none"
    /\ pending' = [pending EXCEPT ![l] = "none"]
    /\ last' = Return(pending[l], FALSE, "canceled")
    /\ IF pending[l] = "WaitAndLock"
       THEN excl' = Acquire(excl, lockConn[l], lockId[l]) /\ shared' = shared
       ELSE shared' = Acquire(shared, lockConn[l], lockId[l]) /\ excl' = excl
    /\ UNCHANGED <<lockState, lockId, lockConn, connState>>

\* Variant: the call returns the context's error and the statement stays
\* queued in the backend.
WaitCanceledLeavesRequest(l) ==
    /\ pending[l] # "none"
    /\ last' = Return(pending[l], FALSE, "canceled")
    /\ UNCHANGED <<lockState, lockId, lockConn, connState, excl, shared, pending>>

\* Variant: the end of the context is noticed only once the statement could
\* be answered.
WaitCanceledWhenFree(l) ==
    /\ pending[l] # "none"
    /\ IF pending[l] = "WaitAndLock"
       THEN ExclusiveAvailable(lockConn[l], lockId[l])
       ELSE SharedAvailable(lockConn[l], lockId[l])
    /\ pending' = [pending EXCEPT ![l] = "none"]
    /\ last' = Return(pending[l], FALSE, "canceled")
    /\ UNCHANGED <<lockState, lockId, lockConn, connState, excl, shared>>

\* The context of a waiting call is cancelled or its deadline passes: the
\* call returns the context's error and the request is withdrawn.
WaitCanceled(l) ==
    /\ pending[l] # "none"
    /\ pending' = [pending EXCEPT ![l] = "none"]
    /\ last' = Return(pending[l], FALSE, "canceled")
    /\ UNCHANGED <<lockState, lockId, lockConn, connState, excl, shared>>

\* ------------------------------------------------------------------- Unlock
\* Variant: the release reaches the session of some connection of the pool,
\* not only the caller's.
UnlockAnySession(l) ==
    /\ Callable(l)
    /\ \E d \in Conns : excl' = Release(excl, d, lockId[l])
    /\ last' = Return("Unlock", TRUE, "nil")
    /\ UNCHANGED <<lockState, lockId, lockConn, connState, shared, pending>>

\* Variant: the statement is not sent: nil is returned and the hold stays.
UnlockKeepsHold(l) ==
    /\ Callable(l)
    /\ last' = Return("Unlock", TRUE, "nil")
    /\ UNCHANGED <<lockState, lockId, lockConn, connState, excl, shared, pending>>

\* Variant: Unlock sends the statement that releases the shared mode.
UnlockReleasesShared(l) ==
    /\ Callable(l)
    /\ shared' = Release(shared, lockConn[l], lockId[l])
    /\ last' = Return("Unlock", TRUE, "nil")
    /\ UNCHANGED <<lockState, lockId, lockConn, connState, excl, pending>>

Unlock(l) ==
    /\ Callable(l)
    /\ excl' = Release(excl, lockConn[l], lockId[l])
    /\ last' = Return("Unlock", TRUE, "nil")
    /\ UNCHANGED <<lockState, lockId, lockConn, connState, shared, pending>>

\* ------------------------------------------------------------------ RUnlock
\* Variant: RUnlock falls back on the exclusive mode when the session holds
\* no shared level.
RUnlockFallsBack(l) ==
    /\ Callable(l)
    /\ IF shared[lockConn[l]][lockId[l]] > 0
       THEN /\ shared' = Release(shared, lockConn[l], lockId[l])
            /\ excl' = excl
       ELSE /\ excl' = Release(excl, lockConn[l], lockId[l])
            /\ shared' = shared
    /\ last' = Return("RUnlock", TRUE, "nil")
    /\ UNCHANGED <<lockState, lockId, lockConn, connState, pending>>

\* Variant: RUnlock that gives up the whole shared hold.
RUnlockDropsHold(l) ==
    /\ Callable(l)
    /\ shared' = [shared EXCEPT ![lockConn[l]][lockId[l]] = 0]
    /\ last' = Return("RUnlock", TRUE, "nil")
    /\ UNCHANGED <<lockState, lockId, lockConn, connState, excl, pending>>

RUnlock(l) ==
    /\ Callable(l)
    /\ shared' = Release(shared, lockConn[l], lockId[l])
    /\ last' = Return("RUnlock", TRUE, "nil")
    /\ UNCHANGED <<lockState, lockId, lockConn, connState, excl, pending>>

\* -------------------------------------------------------------------- Close
\* sql.Conn.Close hands the connection back to the pool.  The pool keeps it
\* open on its free list (the backend session lives on) unless the free list
\* is full, in which case the connection is closed and the session ends.
PoolKeeps == BOOLEAN

\* Variant: Close hands the connection back and leaves the Lock usable.
CloseKeepsHandle(l) ==
    /\ Callable(l)
    /\ connState' = [connState EXCEPT ![lockConn[l]] = "idle"]
    /\ last' = Return("Close", TRUE, "nil")
    /\ UNCHANGED <<lockState, lockId, lockConn, excl, shared, pending>>

Close(l) ==
    /\ Callable(l)
    /\ \E keep \in PoolKeeps :
          LET c == lockConn[l]
          IN  IF keep
              THEN /\ connState' = [connState EXCEPT ![c] = "idle"]
                   /\ UNCHANGED <<excl, shared>>
              ELSE /\ connState' = [connState EXCEPT ![c] = "closed"]
                   /\ excl' = SessionEnd(excl, c)
                   /\ shared' = SessionEnd(shared, c)
    /\ lockState' = [lockState EXCEPT ![l] = "closed"]
    /\ lockConn' = [lockConn EXCEPT ![l] = 0]
    /\ last' = Return("Close", TRUE, "nil")
    /\ UNCHANGED <<lockId, pending>>

\* The pool closes a connection of its free list (db.Close, or the
\* connection's lifetime is over); its backend session ends.
closeDB(c) ==
    /\ connState[c] = "idle"
    /\ connState' = [connState EXCEPT ![c] = "closed"]
    /\ excl' = SessionEnd(excl, c)
    /\ shared' = SessionEnd(shared, c)
    /\ UNCHANGED <<lockState, lockId, lockConn, pending, last>>

\* The callers' own variables are left alone by the methods of Lock.
NoCaller == UNCHANGED <<counter, current, pc>>

\* A call of an acquiring or releasing method on some Lock, or the end of a
\* waiting call.
Calls ==
    \/ \E l \in Locks : Lock(l) /\ NoCaller
    \/ \E l \in Locks : RLock(l) /\ NoCaller
    \/ \E l \in Locks : WaitAndLock(l) /\ NoCaller
    \/ \E l \in Locks : WaitAndLockReturn(l) /\ NoCaller
    \/ \E l \in Locks : WaitAndRLock(l) /\ NoCaller
    \/ \E l \in Locks : WaitAndRLockReturn(l) /\ NoCaller
    \/ \E l \in Locks : WaitCanceled(l) /\ NoCaller
    \/ \E l \in Locks : Unlock(l) /\ NoCaller
    \/ \E l \in Locks : RUnlock(l) /\ NoCaller

Next ==
    \/ \E l \in SingleLocks, id \in SingleKey : NewLock(l, id) /\ NoCaller
    \/ Calls
    \/ \E l \in Locks : Close(l) /\ NoCaller
    \/ \E l \in Locks : ConnDone(l) /\ NoCaller
    \/ \E c \in Conns : closeDB(c) /\ NoCaller

Spec == Init /\ [][Next]_vars

\* ------------------------------------------------------ two identifiers
\* Runs in which the Locks name two resources, one after the other in turn,
\* and stay open.
IdOf(l) == IF l % 2 = 1 THEN 1 ELSE 2

NextTwoKeys ==
    \/ \E l \in SingleLocks : NewLock(l, IdOf(l)) /\ NoCaller
    \/ Calls

SpecTwoKeys == Init /\ [][NextTwoKeys]_vars

\* ------------------------------------------------------------- goroutines
\* Runs in which every Lock belongs to one goroutine that builds it, takes
\* the lock, adds one to a counter shared by all, gives the lock back and
\* closes the Lock.  A goroutine either waits for the lock or tries once and
\* gives up when the lock is taken.
Goto(l, to) == pc' = [pc EXCEPT ![l] = to]

WorkerNewLock(l) ==
    /\ pc[l] = "start"
    /\ \E id \in SingleKey : NewLock(l, id)
    /\ Goto(l, "acquire")
    /\ UNCHANGED <<counter, current>>

WorkerWaitAndLock(l) ==
    /\ pc[l] = "acquire"
    /\ WaitAndLock(l)
    /\ Goto(l, "blocked")
    /\ UNCHANGED <<counter, current>>

WorkerAcquired(l) ==
    /\ pc[l] = "blocked"
    /\ WaitAndLockReturn(l)
    /\ Goto(l, "load")
    /\ UNCHANGED <<counter, current>>

WorkerLock(l) ==
    /\ pc[l] = "acquire"
    /\ Lock(l)
    /\ Goto(l, IF last'.ok THEN "load" ELSE "giveup")
    /\ UNCHANGED <<counter, current>>

\* The critical section: read the counter, then write the value read plus 1.
WorkerLoad(l) ==
    /\ pc[l] = "load"
    /\ current' = [current EXCEPT ![l] = counter]
    /\ Goto(l, "store")
    /\ UNCHANGED <<lockState, lockId, lockConn, connState, excl, shared,
                   pending, last, counter>>

WorkerStore(l) ==
    /\ pc[l] = "store"
    /\ counter' = current[l] + 1
    /\ Goto(l, "unlock")
    /\ UNCHANGED <<lockState, lockId, lockConn, connState, excl, shared,
                   pending, last, current>>

WorkerUnlock(l) ==
    /\ pc[l] = "unlock"
    /\ Unlock(l)
    /\ Goto(l, "close")
    /\ UNCHANGED <<counter, current>>

WorkerClose(l) ==
    /\ pc[l] = "close"
    /\ Close(l)
    /\ Goto(l, "done")
    /\ UNCHANGED <<counter, current>>

\* The goroutine whose try was refused returns, and its deferred Close runs.
WorkerGiveUp(l) ==
    /\ pc[l] = "giveup"
    /\ Close(l)
    /\ Goto(l, "skipped")
    /\ UNCHANGED <<counter, current>>

NextWorkers ==
    \/ \E l \in SingleLocks : WorkerNewLock(l)
    \/ \E l \in Locks : WorkerWaitAndLock(l)
    \/ \E l \in Locks : WorkerAcquired(l)
    \/ \E l \in Locks : WorkerLock(l)
    \/ \E l \in Locks : WorkerLoad(l)
    \/ \E l \in Locks : WorkerStore(l)
    \/ \E l \in Locks : WorkerUnlock(l)
    \/ \E l \in Locks : WorkerClose(l)
    \/ \E l \in Locks : WorkerGiveUp(l)
    \/ \E c \in Conns : closeDB(c) /\ NoCaller

SpecWorkers == Init /\ [][NextWorkers]_vars

\* ------------------------------------------------------------ bounded pool
\* Runs on a pool with a limit on its open connections (db.SetMaxOpenConns)
\* that is one short of the number of goroutines, each of which builds a
\* Lock, tries and releases the lock and closes the Lock.
PoolSize == NumLocks - 1

OpenConns == {c \in Conns : connState[c] # "closed"}

\* Variant: the pool opens connections without looking at the limit.
CanOpenAlways == TRUE

\* The pool may open one more connection.
CanOpen == Cardinality(OpenConns) < PoolSize

\* No connection is free and none may be opened: db.Conn has to wait.
PoolExhausted == FreeConns = {} /\ ~CanOpen

\* db.Conn returns a connection: a free one, or a new one within the limit.
PoolNewLock(l) ==
    /\ pc[l] \in {"start", "waitconn"}
    /\ \E id \in SingleKey : NewLock(l, id)
    /\ connState[lockConn'[l]] = "idle" \/ CanOpen
    /\ Goto(l, "acquire")
    /\ UNCHANGED <<counter, current>>

\* db.Conn finds the pool exhausted and waits for a connection.
PoolNewLockWaits(l) ==
    /\ pc[l] = "start"
    /\ lockState[l] = "zero"
    /\ \A m \in Locks : m < l => lockState[m] # "zero"
    /\ PoolExhausted
    /\ Goto(l, "waitconn")
    /\ UNCHANGED <<lockState, lockId, lockConn, connState, excl, shared,
                   pending, last, counter, current>>

\* Variant: the request stays in the pool after the context has ended and
\* takes a connection that nobody will use.
PoolNewLockCanceledLeaks(l) ==
    /\ pc[l] = "waitconn"
    /\ last' = Return("NewLock", FALSE, "canceled")
    /\ connState' = [connState EXCEPT ![NewConn] = "inuse"]
    /\ Goto(l, "start")
    /\ UNCHANGED <<lockState, lockId, lockConn, excl, shared, pending,
                   counter, current>>

\* The context ends while db.Conn waits: NewLock returns Lock{} and the
\* context's error; the goroutine may call NewLock again later.
PoolNewLockCanceled(l) ==
    /\ pc[l] = "waitconn"
    /\ last' = Return("NewLock", FALSE, "canceled")
    /\ Goto(l, "start")
    /\ UNCHANGED <<lockState, lockId, lockConn, connState, excl, shared,
                   pending, counter, current>>

\* Variant: the context is looked at only after a connection was taken, and
\* the connection is not given back.
NewLockContextDoneLate(l) ==
    /\ pc[l] = "start"
    /\ lockState[l] = "zero"
    /\ \A m \in Locks : m < l => lockState[m] # "zero"
    /\ last' = Return("NewLock", FALSE, "canceled")
    /\ \E c \in FreeConns \cup (IF ClosedConns = {} THEN {} ELSE {NewConn}) :
          connState' = [connState EXCEPT ![c] = "inuse"]
    /\ UNCHANGED <<lockState, lockId, lockConn, excl, shared, pending,
                   counter, current, pc>>

\* NewLock is called with a context that has ended already: db.Conn returns
\* the context's error at once.
NewLockContextDone(l) ==
    /\ pc[l] = "start"
    /\ lockState[l] = "zero"
    /\ \A m \in Locks : m < l => lockState[m] # "zero"
    /\ last' = Return("NewLock", FALSE, "canceled")
    /\ UNCHANGED <<lockState, lockId, lockConn, connState, excl, shared,
                   pending, counter, current, pc>>

PoolClose(l) ==
    /\ pc[l] = "acquire"
    /\ Close(l)
    /\ Goto(l, "done")
    /\ UNCHANGED <<counter, current>>

NextPool ==
    \/ \E l \in SingleLocks : PoolNewLock(l)
    \/ \E l \in SingleLocks : PoolNewLockWaits(l)
    \/ \E l \in SingleLocks : PoolNewLockCanceled(l)
    \/ \E l \in SingleLocks : NewLockContextDone(l)
    \/ \E l \in Locks : Lock(l) /\ NoCaller
    \/ \E l \in Locks : Unlock(l) /\ NoCaller
    \/ \E l \in Locks : PoolClose(l)
    \/ \E c \in Conns : closeDB(c) /\ NoCaller

SpecPool == Init /\ [][NextPool]_vars

\* ---------------------------------------------------------------- two locks
\* Runs in which every process takes two locks: it builds one Lock for each
\* of the two identifiers, waits for the first, then for the second, gives
\* both back and closes both Locks.  A process takes the identifiers in the
\* order it chose when it built its Locks.  The pool has a connection for
\* every Lock.
Procs == 1..((NumLocks + 1) \div 2)

First(p) == 2 * p - 1

Second(p) == 2 * p

OtherKey(k) == CHOOSE j \in Keys : j # k

\* The process is at step "at" and moves to step "to".
ProcStep(p, at, to) ==
    /\ pc[First(p)] = at
    /\ Goto(First(p), to)
    /\ UNCHANGED <<counter, current>>

ProcNewFirst(p) ==
    /\ \E id \in Keys : NewLock(First(p), id)
    /\ ProcStep(p, "start", "new2")

ProcNewSecond(p) ==
    /\ NewLock(Second(p), OtherKey(lockId[First(p)]))
    /\ ProcStep(p, "new2", "acquire")

ProcWaitFirst(p) == WaitAndLock(First(p)) /\ ProcStep(p, "acquire", "blocked")

ProcGotFirst(p) ==
    WaitAndLockReturn(First(p)) /\ ProcStep(p, "blocked", "acquire2")

ProcWaitSecond(p) ==
    WaitAndLock(Second(p)) /\ ProcStep(p, "acquire2", "blocked2")

ProcGotSecond(p) ==
    WaitAndLockReturn(Second(p)) /\ ProcStep(p, "blocked2", "unlock")

ProcUnlockSecond(p) == Unlock(Second(p)) /\ ProcStep(p, "unlock", "unlock2")

ProcUnlockFirst(p) == Unlock(First(p)) /\ ProcStep(p, "unlock2", "close")

ProcCloseSecond(p) == Close(Second(p)) /\ ProcStep(p, "close", "close2")

ProcCloseFirst(p) == Close(First(p)) /\ ProcStep(p, "close2", "done")

NextOrder ==
    \/ \E p \in Procs : ProcNewFirst(p)
    \/ \E p \in Procs : ProcNewSecond(p)
    \/ \E p \in Procs : ProcWaitFirst(p)
    \/ \E p \in Procs : ProcGotFirst(p)
    \/ \E p \in Procs : ProcWaitSecond(p)
    \/ \E p \in Procs : ProcGotSecond(p)
    \/ \E p \in Procs : ProcUnlockSecond(p)
    \/ \E p \in Procs : ProcUnlockFirst(p)
    \/ \E p \in Procs : ProcCloseSecond(p)
    \/ \E p \in Procs : ProcCloseFirst(p)

SpecOrder == Init /\ [][NextOrder]_vars

\* ----------------------------------------------------------------- failures
\* Runs in which a statement may fail: the backend or the connection answers
\* with an error, or the context of a try call has ended.  The method
\* returns that error, and the backend has done what it did before the
\* error came up: nothing when the statement never ran (ran = FALSE), the
\* statement's effect when it ran and the error came up on the way back.
TryErrors == {"failed", "canceled"}

\* Lock returns "result, err" as Scan left them: result is still the false
\* it was initialised with when the call failed before a row was read, and
\* it is the answer of the backend when the row was read (read = TRUE) and
\* the error came up afterwards, while the rest of the reply was read.
LockFails(l) ==
    /\ Callable(l)
    /\ \E err \in TryErrors, ran \in BOOLEAN, read \in BOOLEAN :
          LET c == lockConn[l]
              k == lockId[l]
              granted == ran /\ ExclusiveAvailable(c, k)
          IN  /\ read => (ran /\ err = "failed")
              /\ granted => excl[c][k] < MaxCount
              /\ excl' = IF granted THEN Acquire(excl, c, k) ELSE excl
              /\ last' = Return("Lock", granted /\ read, err)
    /\ UNCHANGED <<lockState, lockId, lockConn, connState, shared, pending>>

RLockFails(l) ==
    /\ Callable(l)
    /\ \E err \in TryErrors, ran \in BOOLEAN, read \in BOOLEAN :
          LET c == lockConn[l]
              k == lockId[l]
              granted == ran /\ SharedAvailable(c, k)
          IN  /\ read => (ran /\ err = "failed")
              /\ granted => shared[c][k] < MaxCount
              /\ shared' = IF granted THEN Acquire(shared, c, k) ELSE shared
              /\ last' = Return("RLock", granted /\ read, err)
    /\ UNCHANGED <<lockState, lockId, lockConn, connState, excl, pending>>

\* WaitAndLock, WaitAndRLock, Unlock or RUnlock returns the error that
\* ExecContext returned.  A waiting statement that ran and failed on the way
\* back had been granted at once.
ExecFails(l) ==
    /\ Callable(l)
    /\ \E ran \in BOOLEAN :
          LET c == lockConn[l]
              k == lockId[l]
          IN  \/ /\ ran => (ExclusiveAvailable(c, k) /\ excl[c][k] < MaxCount)
                 /\ excl' = IF ran THEN Acquire(excl, c, k) ELSE excl
                 /\ shared' = shared
                 /\ last' = Return("WaitAndLock", FALSE, "failed")
              \/ /\ ran => (SharedAvailable(c, k) /\ shared[c][k] < MaxCount)
                 /\ shared' = IF ran THEN Acquire(shared, c, k) ELSE shared
                 /\ excl' = excl
                 /\ last' = Return("WaitAndRLock", FALSE, "failed")
              \/ /\ excl' = IF ran THEN Release(excl, c, k) ELSE excl
                 /\ shared' = shared
                 /\ last' = Return("Unlock", FALSE, "failed")
              \/ /\ shared' = IF ran THEN Release(shared, c, k) ELSE shared
                 /\ excl' = excl
                 /\ last' = Return("RUnlock", FALSE, "failed")
    /\ UNCHANGED <<lockState, lockId, lockConn, connState, pending>>

\* The runs with failures build one Lock less than the runs without.
FaultLocks == 1..(NumLocks - 1)

NextFaults ==
    \/ \E l \in FaultLocks : \E id \in SingleKey : NewLock(l, id) /\ NoCaller
    \/ Calls
    \/ \E l \in Locks : LockFails(l) /\ NoCaller
    \/ \E l \in Locks : RLockFails(l) /\ NoCaller
    \/ \E l \in Locks : ExecFails(l) /\ NoCaller

SpecFaults == Init /\ [][NextFaults]_vars

\* ============================================================== properties
\* The hold counts of Lock l on its own identifier, read from the backend.
ExclusiveCount(l) == excl[lockConn[l]][lockId[l]]

SharedCount(l) == shared[lockConn[l]][lockId[l]]

\* Sessions other than c that hold identifier k in any mode / in exclusive mode.
HoldersBeside(c, k) == {d \in Conns \ {c} : excl[d][k] > 0 \/ shared[d][k] > 0}

WritersBeside(c, k) == {d \in Conns \ {c} : excl[d][k] > 0}

ReadersBeside(c, k) == {d \in Conns \ {c} : shared[d][k] > 0}

\* The step is a call of Lock / RLock / Unlock / RUnlock on the open Lock l.
LockStep(l) == last'.op = "Lock" /\ Lock(l)

RLockStep(l) == last'.op = "RLock" /\ RLock(l)

UnlockStep(l) == last'.op = "Unlock" /\ Unlock(l)

RUnlockStep(l) == last'.op = "RUnlock" /\ RUnlock(l)

\* The step is the return of nil from the waiting call op of Lock l.
ReturnsNil(l, op) ==
    /\ pending[l] = op
    /\ pending'[l] = "none"
    /\ last'.err = "nil"

\* Open Locks on the same identifier as l, other than l.
Rivals(l) ==
    {m \in Locks \ {l} : lockState[m] = "open" /\ lockId[m] = lockId[l]}

HoldsNothing(l) == ExclusiveCount(l) = 0 /\ SharedCount(l) = 0

OpenLocks == {l \in Locks : lockState[l] = "open"}

\* C1. Mutual exclusion: in every reachable state and for every identifier, a
\* session that holds the identifier in exclusive mode is the only session
\* that holds it in any mode.
C1_MutualExclusion ==
    \A k \in Keys : \A c \in Conns :
        excl[c][k] > 0 =>
            \A d \in Conns \ {c} : excl[d][k] = 0 /\ shared[d][k] = 0

\* A Lock call was just refused: one open Lock holds the identifier in
\* exclusive mode and a rival open Lock holds nothing.
C1_Witness ==
    /\ last = Return("Lock", FALSE, "nil")
    /\ \E l \in OpenLocks : \E m \in Rivals(l) :
          ExclusiveCount(l) > 0 /\ HoldsNothing(m)

\* C2. Close releases everything: the step that closes a Lock leaves the
\* exclusive and the shared count of its session at 0 on every identifier.
C2_CloseReleasesEverything ==
    [][\A l \in Locks :
          (lockState[l] = "open" /\ lockState'[l] = "closed") =>
              \A k \in Keys : /\ excl'[lockConn[l]][k] = 0
                              /\ shared'[lockConn[l]][k] = 0]_vars

\* C3. Result of Lock: true, with the caller's exclusive count one higher,
\* exactly when no other session holds the identifier in any mode; false,
\* with no count changed, when another session holds it; never an error.
C3_LockResult ==
    [][\A l \in Locks :
          LockStep(l) =>
              IF HoldersBeside(lockConn[l], lockId[l]) = {}
              THEN /\ last' = Return("Lock", TRUE, "nil")
                   /\ excl' = [excl EXCEPT ![lockConn[l]][lockId[l]] = @ + 1]
                   /\ shared' = shared
              ELSE /\ last' = Return("Lock", FALSE, "nil")
                   /\ excl' = excl
                   /\ shared' = shared]_vars

\* Lock has just returned true; the holder has two exclusive levels and a
\* rival open Lock on the same identifier holds nothing.
C3_Witness ==
    /\ last = Return("Lock", TRUE, "nil")
    /\ \E l \in OpenLocks : \E m \in Rivals(l) :
          ExclusiveCount(l) = 2 /\ HoldsNothing(m)

\* C4. Shared compatibility: while a session holds an identifier in shared
\* mode no other session holds it in exclusive mode; next to shared holders
\* (none of them also a writer) RLock by a further session returns true, and
\* Lock by a further session returns false.
C4_SharedCompatibility ==
    /\ [](\A k \in Keys : \A c \in Conns :
             shared[c][k] > 0 => \A d \in Conns \ {c} : excl[d][k] = 0)
    /\ [][\A l \in Locks :
             /\ (RLockStep(l) /\ ReadersBeside(lockConn[l], lockId[l]) # {}
                    /\ WritersBeside(lockConn[l], lockId[l]) = {}) =>
                    /\ last' = Return("RLock", TRUE, "nil")
                    /\ SharedCount(l)' = SharedCount(l) + 1
             /\ (LockStep(l) /\ ReadersBeside(lockConn[l], lockId[l]) # {}) =>
                    /\ last' = Return("Lock", FALSE, "nil")
                    /\ ExclusiveCount(l)' = ExclusiveCount(l)]_vars

\* Three open Locks hold the same identifier in shared mode at once, the
\* last of them by an RLock that has just returned true.
C4_Witness ==
    /\ last = Return("RLock", TRUE, "nil")
    /\ \E l \in OpenLocks :
          /\ SharedCount(l) > 0
          /\ Cardinality({m \in Rivals(l) : SharedCount(m) > 0}) >= 2

\* C5. Result of RLock: false, with no count changed, only when another
\* session holds the identifier in exclusive mode; in every other state
\* (shared holders, waiting sessions) true with the caller's shared count
\* one higher.
C5_RLockResult ==
    [][\A l \in Locks :
          RLockStep(l) =>
              IF WritersBeside(lockConn[l], lockId[l]) # {}
              THEN /\ last' = Return("RLock", FALSE, "nil")
                   /\ excl' = excl
                   /\ shared' = shared
              ELSE /\ last' = Return("RLock", TRUE, "nil")
                   /\ shared' = [shared EXCEPT ![lockConn[l]][lockId[l]] = @ + 1]
                   /\ excl' = excl]_vars

\* RLock has just returned true: two open Locks hold the identifier in
\* shared mode while a third one is waiting for it in WaitAndLock.
C5_Witness ==
    /\ last = Return("RLock", TRUE, "nil")
    /\ \E l \in OpenLocks : \E m \in Rivals(l) : \E w \in Rivals(l) \ {m} :
          /\ SharedCount(l) > 0
          /\ SharedCount(m) > 0
          /\ pending[w] = "WaitAndLock"

\* C6. Exclusive stacking: Unlock lowers the holder's exclusive count by one
\* level only, and as long as levels remain, Lock by another session on the
\* identifier returns false; it returns true only when none remains.
C6_ExclusiveStacking ==
    [][\A l \in Locks :
          /\ (UnlockStep(l) /\ ExclusiveCount(l) > 0) =>
                 ExclusiveCount(l)' = ExclusiveCount(l) - 1
          /\ \A m \in Locks \ {l} :
                 (LockStep(m) /\ lockState[l] = "open" /\ lockId[l] = lockId[m]
                    /\ ExclusiveCount(l) > 0) => ~last'.ok]_vars

\* After two exclusive acquisitions and one Unlock the holder still has one
\* level, and a rival's Lock has just returned false.
C6_Witness ==
    /\ last = Return("Lock", FALSE, "nil")
    /\ \E l \in OpenLocks : \E m \in Rivals(l) :
          ExclusiveCount(l) = 1 /\ HoldsNothing(m)

\* C7. Shared stacking: RUnlock lowers the holder's shared count by one level
\* only, and as long as levels remain, Lock by another session on the
\* identifier returns false.
C7_SharedStacking ==
    [][\A l \in Locks :
          /\ (RUnlockStep(l) /\ SharedCount(l) > 0) =>
                 SharedCount(l)' = SharedCount(l) - 1
          /\ \A m \in Locks \ {l} :
                 (LockStep(m) /\ lockState[l] = "open" /\ lockId[l] = lockId[m]
                    /\ SharedCount(l) > 0) => ~last'.ok]_vars

\* After two shared acquisitions the holder has just given one level back
\* with RUnlock and still has one, next to a rival that holds nothing.
C7_Witness ==
    /\ last = Return("RUnlock", TRUE, "nil")
    /\ \E l \in OpenLocks : \E m \in Rivals(l) :
          SharedCount(l) = 1 /\ HoldsNothing(m)

\* C8. WaitAndLock returns nil only from a state in which no other session
\* holds the identifier in any mode, and its return raises the caller's
\* exclusive count by exactly one and changes no other count.
C8_WaitAndLockGrant ==
    [][\A l \in Locks :
          ReturnsNil(l, "WaitAndLock") =>
              /\ HoldersBeside(lockConn[l], lockId[l]) = {}
              /\ excl' = [excl EXCEPT ![lockConn[l]][lockId[l]] = @ + 1]
              /\ shared' = shared]_vars

\* WaitAndLock has just returned nil to a Lock that now holds the identifier
\* in exclusive mode, while a rival is still blocked in WaitAndLock.
C8_Witness ==
    /\ last = Return("WaitAndLock", TRUE, "nil")
    /\ \E l \in OpenLocks : \E m \in Rivals(l) :
          /\ ExclusiveCount(l) >= 1
          /\ pending[m] = "WaitAndLock"

\* C9. WaitAndRLock returns nil only from a state in which no other session
\* holds the identifier in exclusive mode, its return raises the caller's
\* shared count by exactly one, and in every state without such a holder the
\* waiting call can return, whatever shared holds other sessions have.
C9_WaitAndRLockGrant ==
    /\ [](\A l \in Locks :
             (pending[l] = "WaitAndRLock"
                /\ WritersBeside(lockConn[l], lockId[l]) = {}) =>
                 ENABLED WaitAndRLockReturn(l))
    /\ [][\A l \in Locks :
             ReturnsNil(l, "WaitAndRLock") =>
                 /\ WritersBeside(lockConn[l], lockId[l]) = {}
                 /\ shared' = [shared EXCEPT ![lockConn[l]][lockId[l]] = @ + 1]
                 /\ excl' = excl]_vars

\* WaitAndRLock has just returned nil; two open Locks hold the identifier in
\* shared mode.
C9_Witness ==
    /\ last = Return("WaitAndRLock", TRUE, "nil")
    /\ \E l \in OpenLocks : \E m \in Rivals(l) :
          SharedCount(l) > 0 /\ SharedCount(m) > 0

\* C10. Waiters make progress: once every other Lock on the identifier has
\* given up what it held (by Unlock or RUnlock down to zero, or by Close), a
\* call blocked in WaitAndLock or WaitAndRLock is able to return nil.
C10_WaitersProgress ==
    \A l \in Locks :
        (pending[l] # "none" /\ \A m \in Rivals(l) : HoldsNothing(m)) =>
            ENABLED (WaitAndLockReturn(l) \/ WaitAndRLockReturn(l))

\* The step ends the waiting call of Lock l, with whatever result.
WaitReturns(l) == pending[l] # "none" /\ pending'[l] = "none"

\* The step returns the error of an ended context to some waiting call.
ReturnsCanceled ==
    /\ last'.err = "canceled"
    /\ \/ last' # last
       \/ \E l \in Locks : WaitReturns(l)

\* C11. Cancelled wait under contention: while another session holds the
\* identifier in exclusive mode, a WaitAndLock call can only end with the
\* context's error and with every count as it was, and a Lock call that
\* follows on the same Lock, the holder still holding, returns false.
C11_CanceledUnderContention ==
    [][\A l \in Locks :
          /\ (pending[l] = "WaitAndLock" /\ WaitReturns(l)
                /\ WritersBeside(lockConn[l], lockId[l]) # {}) =>
                 /\ last' = Return("WaitAndLock", FALSE, "canceled")
                 /\ excl' = excl
                 /\ shared' = shared
          /\ (last = Return("WaitAndLock", FALSE, "canceled") /\ LockStep(l)
                /\ WritersBeside(lockConn[l], lockId[l]) # {}) =>
                 /\ last' = Return("Lock", FALSE, "nil")
                 /\ excl' = excl]_vars

\* A WaitAndLock call has just returned the context's error to a Lock that
\* holds nothing, while a rival holds the identifier in exclusive mode.
C11_Witness ==
    /\ last = Return("WaitAndLock", FALSE, "canceled")
    /\ \E l \in OpenLocks : \E m \in Rivals(l) :
          /\ HoldsNothing(l)
          /\ pending[l] = "none"
          /\ ExclusiveCount(m) > 0

C14_CancellationUnblocks ==
    \A l \in Locks :
        pending[l] # "none" =>
            ENABLED (/\ WaitCanceled(l)
                     /\ pending'[l] = "none"
                     /\ last' = Return(pending[l], FALSE, "canceled"))

\* A WaitAndLock call has just returned the context's error while two
\* rivals, which have not released anything, hold the identifier in shared
\* mode.
C14_Witness ==
    /\ last = Return("WaitAndLock", FALSE, "canceled")
    /\ \E l \in OpenLocks :
          /\ pending[l] = "none"
          /\ ExclusiveCount(l) = 0
          /\ Cardinality({m \in Rivals(l) : SharedCount(m) > 0}) = 2

\* The step is a method call on Lock l, which is open.
CallOnOpen(l) ==
    \/ Lock(l) \/ RLock(l) \/ Unlock(l) \/ RUnlock(l)
    \/ WaitAndLock(l) \/ WaitAndRLock(l)

\* C15. After Close: the step that hands the connection of a Lock back to
\* the pool leaves the Lock closed; on a closed Lock no call reaches the
\* backend or is left waiting, every call returns an error, and that return
\* changes no count of any session.
C15_AfterClose ==
    /\ [](\A l \in Locks :
             lockState[l] = "closed" =>
                 /\ pending[l] = "none"
                 /\ ~ENABLED CallOnOpen(l)
                 /\ ENABLED ConnDone(l))
    /\ [][/\ \A l \in Locks :
                (lockState[l] = "open" /\ connState'[lockConn[l]] # "inuse") =>
                    lockState'[l] = "closed"
          /\ (last'.err = "conndone" /\ last' # last) =>
                /\ ~last'.ok
                /\ UNCHANGED <<excl, shared, pending, connState>>]_vars

\* A call on a closed Lock has just returned the error, while an open Lock
\* holds the identifier in exclusive mode.
C15_Witness ==
    /\ last = Return("method", FALSE, "conndone")
    /\ \E l \in Locks : \E m \in OpenLocks :
          /\ lockState[l] = "closed"
          /\ ExclusiveCount(m) > 0

\* The step gives Lock l one more exclusive / shared level, by a try call
\* or by the answer to a waiting call.
GainsExclusive(l) == LockStep(l) \/ ReturnsNil(l, "WaitAndLock")

GainsShared(l) == RLockStep(l) \/ ReturnsNil(l, "WaitAndRLock")

\* What the sessions other than c can get on identifier k is the same before
\* and after the step.
SameViewBeside(c, k) ==
    \A d \in Conns \ {c} :
        /\ ExclusiveAvailable(d, k)' = ExclusiveAvailable(d, k)
        /\ SharedAvailable(d, k)' = SharedAvailable(d, k)

\* C16. Re-entrancy in the held mode: a session that holds the identifier
\* in exclusive mode gets true from Lock and can be answered at once in
\* WaitAndLock, and a session that holds it in shared mode gets true from
\* RLock and can be answered at once in WaitAndRLock, also while other
\* sessions are waiting; the further level changes nothing in what the other
\* sessions can get.
C16_SelfReentrancy ==
    /\ [](\A l \in Locks :
             /\ (pending[l] = "WaitAndLock" /\ ExclusiveCount(l) > 0) =>
                    ENABLED WaitAndLockReturn(l)
             /\ (pending[l] = "WaitAndRLock" /\ SharedCount(l) > 0) =>
                    ENABLED WaitAndRLockReturn(l))
    /\ [][\A l \in Locks :
             /\ (LockStep(l) /\ ExclusiveCount(l) > 0) =>
                    /\ last' = Return("Lock", TRUE, "nil")
                    /\ ExclusiveCount(l)' = ExclusiveCount(l) + 1
             /\ (RLockStep(l) /\ SharedCount(l) > 0) =>
                    /\ last' = Return("RLock", TRUE, "nil")
                    /\ SharedCount(l)' = SharedCount(l) + 1
             /\ (GainsExclusive(l) /\ ExclusiveCount(l) > 0) =>
                    SameViewBeside(lockConn[l], lockId[l])
             /\ (GainsShared(l) /\ SharedCount(l) > 0) =>
                    SameViewBeside(lockConn[l], lockId[l])]_vars

\* Lock has just returned true to a holder that now has two exclusive
\* levels, while a rival is blocked in WaitAndLock.
C16_Witness ==
    /\ last = Return("Lock", TRUE, "nil")
    /\ \E l \in OpenLocks : \E m \in Rivals(l) :
          /\ ExclusiveCount(l) = 2
          /\ pending[m] = "WaitAndLock"

\* C17 as stated. A session that holds any count on the identifier is never
\* refused a further acquisition, whichever mode it holds and asks for.
C17_AnyFlavorReentrancy ==
    [][\A l \in Locks :
          ((LockStep(l) \/ RLockStep(l)) /\ ~HoldsNothing(l)) =>
              last'.ok]_vars

\* C17 as amended. A session that holds a count on the identifier is never
\* refused or kept waiting for a further level of the mode it holds; a
\* session that holds the shared mode only does not get the exclusive mode
\* while another session holds the shared mode: Lock returns false and
\* WaitAndLock stays blocked.
C17_HeldFlavorReentrancy ==
    /\ [](\A l \in Locks :
             (pending[l] = "WaitAndLock" /\ SharedCount(l) > 0
                /\ ReadersBeside(lockConn[l], lockId[l]) # {}) =>
                 ~ENABLED WaitAndLockReturn(l))
    /\ [][\A l \in Locks :
             /\ (GainsExclusive(l) /\ ExclusiveCount(l) > 0) => last'.ok
             /\ (GainsShared(l) /\ SharedCount(l) > 0) => last'.ok
             /\ (LockStep(l) /\ SharedCount(l) > 0
                   /\ ReadersBeside(lockConn[l], lockId[l]) # {}) =>
                    /\ last' = Return("Lock", FALSE, "nil")
                    /\ excl' = excl]_vars

\* Lock has just returned false to a session that holds the identifier in
\* shared mode, next to a rival that holds it in shared mode too.
C17_Witness ==
    /\ last = Return("Lock", FALSE, "nil")
    /\ \E l \in OpenLocks : \E m \in Rivals(l) :
          /\ SharedCount(l) > 0
          /\ ExclusiveCount(l) = 0
          /\ SharedCount(m) > 0

\* C18. Release at zero: no count is ever negative; Unlock by a session
\* whose exclusive count is 0, and RUnlock by a session whose shared count
\* is 0, return nil and leave every count, every waiting call and every
\* connection as they were, so that what follows cannot tell the call from
\* no call.
C18_ReleaseAtZero ==
    /\ [](\A c \in Conns : \A k \in Keys : excl[c][k] >= 0 /\ shared[c][k] >= 0)
    /\ [][\A l \in Locks :
             /\ (UnlockStep(l) /\ ExclusiveCount(l) = 0) =>
                    /\ last' = Return("Unlock", TRUE, "nil")
                    /\ UNCHANGED <<lockState, lockId, lockConn, connState,
                                   excl, shared, pending>>
             /\ (RUnlockStep(l) /\ SharedCount(l) = 0) =>
                    /\ last' = Return("RUnlock", TRUE, "nil")
                    /\ UNCHANGED <<lockState, lockId, lockConn, connState,
                                   excl, shared, pending>>]_vars

\* Unlock has just returned nil in a state in which two sessions hold the
\* identifier in shared mode: no session can have held it in exclusive mode
\* before the call, which therefore found its count at 0.
C18_Witness ==
    /\ last = Return("Unlock", TRUE, "nil")
    /\ \A c \in Conns : \A k \in Keys : excl[c][k] = 0
    /\ \E l \in OpenLocks : \E m \in Rivals(l) :
          SharedCount(l) > 0 /\ SharedCount(m) > 0

\* C19. Different identifiers do not interfere: whether Lock and RLock
\* return true, and whether a call waiting in WaitAndLock or WaitAndRLock can
\* be answered, is decided by the counts on the caller's own identifier
\* alone; and a count changes only in a step of the Lock that names its
\* identifier on its session.
C19_DifferentIdentities ==
    /\ [](\A l \in Locks :
             /\ pending[l] = "WaitAndLock" =>
                    (ENABLED WaitAndLockReturn(l)
                        <=> HoldersBeside(lockConn[l], lockId[l]) = {})
             /\ pending[l] = "WaitAndRLock" =>
                    (ENABLED WaitAndRLockReturn(l)
                        <=> WritersBeside(lockConn[l], lockId[l]) = {}))
    /\ [][/\ \A l \in Locks :
                /\ LockStep(l) =>
                       (last'.ok <=> HoldersBeside(lockConn[l], lockId[l]) = {})
                /\ RLockStep(l) =>
                       (last'.ok <=> WritersBeside(lockConn[l], lockId[l]) = {})
          /\ \A c \in Conns : \A k \in Keys :
                (excl'[c][k] # excl[c][k] \/ shared'[c][k] # shared[c][k]) =>
                    /\ \E l \in Locks : lockConn[l] = c /\ lockId[l] = k
                    /\ \A d \in Conns : \A j \in Keys \ {k} :
                          excl'[d][j] = excl[d][j] /\ shared'[d][j] = shared[d][j]]_vars

\* Lock has just returned true; two sessions hold one identifier each in
\* exclusive mode, and a third Lock is waiting for one of the two.
C19_Witness ==
    /\ last = Return("Lock", TRUE, "nil")
    /\ \E l \in OpenLocks : \E m \in OpenLocks :
          /\ lockId[l] # lockId[m]
          /\ ExclusiveCount(l) > 0
          /\ ExclusiveCount(m) > 0
          /\ \E w \in Rivals(l) : pending[w] = "WaitAndLock"

\* Goroutines inside the critical section: past the grant, before Unlock.
InCriticalSection == {l \in Locks : pc[l] \in {"load", "store", "unlock"}}

Finished == \A l \in SingleLocks : pc[l] \in {"done", "skipped"}

\* C20. Critical sections do not overlap: at most one goroutine is between
\* its successful WaitAndLock (or Lock) and its Unlock, no acquisition
\* succeeds while another goroutine is there, and when all goroutines have
\* finished the counter equals the number of those that went through the
\* section: the number of Locks when each of them waited for the lock.
C20_NoLostUpdate ==
    /\ [](/\ Cardinality(InCriticalSection) <= 1
          /\ Finished =>
                counter = Cardinality({l \in Locks : pc[l] = "done"}))
    /\ [][\A l \in Locks :
             (GainsExclusive(l) /\ InCriticalSection # {}) => ~last'.ok]_vars

\* Every goroutine waited for the lock, went through the critical section
\* and finished; the counter equals their number.
C20_Witness ==
    /\ \A l \in SingleLocks : pc[l] = "done"
    /\ counter = NumLocks

\* C22. Try calls do not wait: while another session holds a conflicting
\* lock, Lock (and RLock against an exclusive holder) can be called and
\* returns false in the same step, and no step of Lock or RLock leaves a
\* request of the caller waiting in the backend.
C22_TryNeverWaits ==
    /\ [](\A l \in Locks :
             Callable(l) =>
                 /\ HoldersBeside(lockConn[l], lockId[l]) # {} =>
                        ENABLED (Lock(l) /\ last' = Return("Lock", FALSE, "nil")
                                    /\ pending'[l] = "none")
                 /\ WritersBeside(lockConn[l], lockId[l]) # {} =>
                        ENABLED (RLock(l) /\ last' = Return("RLock", FALSE, "nil")
                                    /\ pending'[l] = "none"))
    /\ [][\A l \in Locks :
             (Callable(l) /\ (Lock(l) \/ RLock(l))) =>
                 /\ pending' = pending
                 /\ last'.op \in {"Lock", "RLock"}]_vars

\* RLock has just returned false to a Lock that holds nothing and waits for
\* nothing, next to a rival with two exclusive levels and a third Lock that
\* is blocked in a waiting call.
C22_Witness ==
    /\ last = Return("RLock", FALSE, "nil")
    /\ \E l \in OpenLocks : \E m \in Rivals(l) : \E w \in Rivals(l) \ {m} :
          /\ HoldsNothing(l)
          /\ pending[l] = "none"
          /\ ExclusiveCount(m) = 2
          /\ pending[w] # "none"

\* C23. Dedicated connection: no two open Locks are bound to the same
\* connection, the connection of an open Lock is marked in use in the pool
\* (not free, not closed), and it stays the Lock's connection until the
\* step that closes the Lock.
C23_DedicatedConnection ==
    /\ [](\A l \in OpenLocks :
             /\ lockConn[l] \in Conns
             /\ connState[lockConn[l]] = "inuse"
             /\ \A m \in OpenLocks \ {l} : lockConn[m] # lockConn[l])
    /\ [][\A l \in OpenLocks :
             \/ lockState'[l] = "open" /\ lockConn'[l] = lockConn[l]
             \/ lockState'[l] = "closed" /\ last'.op = "Close"]_vars

\* NewLock has just returned a Lock; two Locks are open, one Lock is closed
\* and the pool has two open connections: each open Lock has its own one,
\* and the closed Lock's connection was closed or is used again.
C23_Witness ==
    /\ last = Return("NewLock", TRUE, "nil")
    /\ Cardinality(OpenLocks) = 2
    /\ \E l \in Locks : lockState[l] = "closed"
    /\ Cardinality({c \in Conns : connState[c] # "closed"}) = 2

\* Connections that the pool has handed out.
InUseConns == {c \in Conns : connState[c] = "inuse"}

\* The step is a NewLock call that returns the context's error.
NewLockErrorStep == last'.op = "NewLock" /\ last'.err = "canceled" /\ last' # last

\* C24. One connection per open Lock: the connections handed out by the
\* pool are as many as the open Locks and never more than the limit of the
\* pool; the step in which NewLock returns a Lock takes exactly one more,
\* and the step that closes a Lock gives exactly one back.
C24_OneSlotPerLock ==
    /\ [](/\ Cardinality(InUseConns) = Cardinality(OpenLocks)
          /\ Cardinality(OpenLocks) <= PoolSize
          /\ Cardinality(OpenConns) <= PoolSize)
    /\ [][\A l \in Locks :
             /\ (lockState[l] = "zero" /\ lockState'[l] = "open") =>
                    /\ InUseConns' = InUseConns \cup {lockConn'[l]}
                    /\ lockConn'[l] \notin InUseConns
             /\ (lockState[l] = "open" /\ lockState'[l] = "closed") =>
                    /\ InUseConns' = InUseConns \ {lockConn[l]}
                    /\ lockConn[l] \in InUseConns]_vars

\* As many Locks are open as the pool may have connections, the last of
\* them built by a NewLock that has just returned; a further Lock is closed
\* already.
C24_Witness ==
    /\ last = Return("NewLock", TRUE, "nil")
    /\ Cardinality(OpenLocks) = PoolSize
    /\ \E l \in Locks : lockState[l] = "closed"

\* C25. NewLock on an exhausted pool: while every connection of the pool
\* belongs to an open Lock, NewLock cannot return a Lock; the call that
\* waits holds no connection, can return the context's error at any time
\* without binding one, and can return a Lock as soon as a connection is
\* free or may be opened.
C25_ExhaustedPool ==
    /\ [](\A l \in Locks :
             /\ (pc[l] \in {"start", "waitconn"} /\ PoolExhausted) =>
                    ~ENABLED PoolNewLock(l)
             /\ pc[l] = "waitconn" =>
                    /\ lockState[l] = "zero" /\ lockConn[l] = 0
                    /\ ENABLED PoolNewLockCanceled(l)
                    /\ ~PoolExhausted => ENABLED PoolNewLock(l))
    /\ [][\A l \in Locks :
             (pc[l] = "waitconn" /\ NewLockErrorStep) =>
                 /\ ~last'.ok
                 /\ UNCHANGED <<lockState, lockId, lockConn, connState,
                                excl, shared, pending>>]_vars

\* NewLock has just returned the context's error while every connection
\* the pool may have belongs to an open Lock.
C25_Witness ==
    /\ last = Return("NewLock", FALSE, "canceled")
    /\ Cardinality(OpenLocks) = PoolSize
    /\ InUseConns = OpenConns
    /\ \E l \in SingleLocks : lockState[l] = "zero" /\ pc[l] = "start"

\* C26. NewLock with a context that has ended: the call returns an error,
\* the Lock it returns is not bound to a connection, no connection leaves
\* the pool and no count changes.
C26_NewLockContextDone ==
    [][NewLockErrorStep =>
          /\ ~last'.ok
          /\ Cardinality(InUseConns') = Cardinality(OpenLocks')
          /\ UNCHANGED <<lockState, lockId, lockConn, connState, excl, shared,
                         pending>>]_vars

\* NewLock has just returned the context's error although the pool has a
\* free connection and no Lock is open.
C26_Witness ==
    /\ last = Return("NewLock", FALSE, "canceled")
    /\ OpenLocks = {}
    /\ FreeConns # {}
    /\ \A l \in Locks : pc[l] # "waitconn"

\* C21. Three outcomes of a try: Lock and RLock never return true together
\* with an error, and they return (false, nil) only in a state in which
\* some open Lock is refused by the holds of another session; every other
\* return carries a failure or the end of the context as its error.
C21_TryOutcomes ==
    /\ [](last.op \in {"Lock", "RLock"} =>
             /\ last.ok => last.err = "nil"
             /\ last.err \in {"nil", "failed", "canceled"})
    /\ [][/\ (last' # last /\ last' = Return("Lock", FALSE, "nil")) =>
                \E l \in Locks :
                    Callable(l) /\ HoldersBeside(lockConn[l], lockId[l]) # {}
          /\ (last' # last /\ last' = Return("RLock", FALSE, "nil")) =>
                \E l \in Locks :
                    Callable(l) /\ WritersBeside(lockConn[l], lockId[l]) # {}]_vars

\* The counts of connection c on key k are the same before and after.
SameCounts(c, k) == excl'[c][k] = excl[c][k] /\ shared'[c][k] = shared[c][k]

\* C28. One primitive per call: a step that changes a count of a session
\* that stays alive changes exactly one count, that of the connection and
\* identifier of one open Lock, by one, and the count and the direction are
\* those of the method that returned (Lock and WaitAndLock raise the
\* exclusive count, RLock and WaitAndRLock the shared count, Unlock lowers
\* the exclusive count, RUnlock the shared count).  A call that returns a
\* failure leaves no request behind and is not sent again: it changes at
\* most the one count of its one request.
C28_OnePrimitivePerCall ==
    [][/\ \A c \in Conns : \A k \in Keys :
             (~SameCounts(c, k) /\ connState'[c] = "inuse") =>
                /\ \E l \in OpenLocks : lockConn[l] = c /\ lockId[l] = k
                /\ \A d \in Conns : \A j \in Keys :
                      <<d, j>> # <<c, k>> => SameCounts(d, j)
                /\ CASE last'.op \in {"Lock", "WaitAndLock"} ->
                           /\ excl'[c][k] = excl[c][k] + 1
                           /\ shared'[c][k] = shared[c][k]
                     [] last'.op \in {"RLock", "WaitAndRLock"} ->
                           /\ shared'[c][k] = shared[c][k] + 1
                           /\ excl'[c][k] = excl[c][k]
                     [] last'.op = "Unlock" ->
                           /\ excl'[c][k] = excl[c][k] - 1
                           /\ shared'[c][k] = shared[c][k]
                     [] last'.op = "RUnlock" ->
                           /\ shared'[c][k] = shared[c][k] - 1
                           /\ excl'[c][k] = excl[c][k]
                     [] OTHER -> FALSE
       /\ (last'.err = "failed"
              /\ (last' # last \/ excl' # excl \/ shared' # shared)) =>
             UNCHANGED <<lockState, lockConn, connState, pending>>]_vars

\* Unlock has just failed on a session that holds the exclusive mode twice
\* and shared once: the statement did not run and was not sent again.
C28_Witness ==
    /\ last = Return("Unlock", FALSE, "failed")
    /\ \E l \in OpenLocks :
          /\ ExclusiveCount(l) = 2
          /\ SharedCount(l) = 1
          /\ pending[l] = "none"

\* C27. Close is always safe: the step in which Close is called on an open
\* Lock returns nil and leaves the counts of the Lock's session on the
\* Lock's identifier at 0, whatever was called on the Lock before.
C27_CloseAlwaysClean ==
    [][\A l \in Locks :
          (Callable(l) /\ lockState'[l] = "closed") =>
              /\ last' = Return("Close", TRUE, "nil")
              /\ excl'[lockConn[l]][lockId[l]] = 0
              /\ shared'[lockConn[l]][lockId[l]] = 0]_vars

\* C30. A new Lock starts clean: the step in which NewLock returns a Lock
\* leaves the counts of the Lock's connection at 0 on every identifier.
C30_NewLockStartsClean ==
    [][\A l \in Locks :
          (lockState[l] = "zero" /\ lockState'[l] = "open") =>
              \A k \in Keys : /\ excl'[lockConn'[l]][k] = 0
                              /\ shared'[lockConn'[l]][k] = 0]_vars

\* C31. Close wakes waiters: when Close has just returned, a call blocked in
\* WaitAndLock is able to return nil if no other open Lock on the identifier
\* holds anything, and a call blocked in WaitAndRLock if no other open Lock
\* holds the exclusive mode.
C31_CloseWakesWaiters ==
    \A l \in OpenLocks :
        last = Return("Close", TRUE, "nil") =>
            /\ (pending[l] = "WaitAndLock"
                  /\ \A m \in Rivals(l) : HoldsNothing(m)) =>
                 ENABLED WaitAndLockReturn(l)
            /\ (pending[l] = "WaitAndRLock"
                  /\ \A m \in Rivals(l) : ExclusiveCount(m) = 0) =>
                 ENABLED WaitAndRLockReturn(l)

\* The Lock is open before and after the step.
StaysOpen(l) == lockState[l] = "open" /\ lockState'[l] = "open"

\* The counts of a Lock that stays open move as its calls say: a successful
\* Lock or WaitAndLock raises the exclusive count by 1, a successful RLock
\* or WaitAndRLock the shared count by 1, Unlock and RUnlock lower the
\* matching positive count by 1, and no other step changes either count.
CounterSteps ==
    \A l \in Locks :
        StaysOpen(l) =>
            LET c == lockConn[l]
                k == lockId[l]
            IN  /\ excl'[c][k] =
                      IF GainsExclusive(l) /\ last'.ok THEN excl[c][k] + 1
                      ELSE IF UnlockStep(l) /\ excl[c][k] > 0 THEN excl[c][k] - 1
                      ELSE excl[c][k]
                /\ shared'[c][k] =
                      IF GainsShared(l) /\ last'.ok THEN shared[c][k] + 1
                      ELSE IF RUnlockStep(l) /\ shared[c][k] > 0
                           THEN shared[c][k] - 1
                      ELSE shared[c][k]

\* C32. Counter arithmetic: the counts of a Lock are 0 when NewLock returns
\* it, move only as CounterSteps says while it is open, and are never
\* negative; so each count is the number of successful acquires minus the
\* number of effective releases since NewLock.
C32_CounterArithmetic ==
    /\ [](\A c \in Conns : \A k \in Keys : excl[c][k] >= 0 /\ shared[c][k] >= 0)
    /\ [][/\ CounterSteps
          /\ \A l \in Locks :
                (lockState[l] = "zero" /\ lockState'[l] = "open") =>
                    /\ excl'[lockConn'[l]][lockId'[l]] = 0
                    /\ shared'[lockConn'[l]][lockId'[l]] = 0]_vars

\* The step closes Lock l.
CloseStep(l) == lockState[l] = "open" /\ lockState'[l] = "closed"

\* C33. A session only changes its own holds: a step in which a Lock calls
\* Unlock, RUnlock or Close leaves the counts of every other connection as
\* they were; and when the Lock calls Lock right after an Unlock while
\* another session holds the identifier, it is still refused.
C33_OwnHoldsOnly ==
    [][\A b \in Locks :
          /\ (UnlockStep(b) \/ RUnlockStep(b) \/ CloseStep(b)) =>
                \A d \in Conns \ {lockConn[b]} : \A k \in Keys : SameCounts(d, k)
          /\ (last.op = "Unlock" /\ LockStep(b)
                /\ HoldersBeside(lockConn[b], lockId[b]) # {}) =>
                last' = Return("Lock", FALSE, "nil")]_vars

\* Unlock has just returned while one open Lock holds the exclusive mode
\* at its highest level and the other open Locks hold nothing: the caller
\* was one of those, and the holder's count is untouched.
C33_Witness ==
    /\ last = Return("Unlock", TRUE, "nil")
    /\ \E a \in OpenLocks :
          /\ ExclusiveCount(a) = MaxCount
          /\ Rivals(a) # {}
          /\ \A b \in Rivals(a) : HoldsNothing(b) /\ pending[b] = "none"

\* C34. Release flavors are independent: a step in which a Lock calls Unlock
\* returns nil and changes no shared count, and a step in which it calls
\* RUnlock returns nil and changes no exclusive count; so a hold taken in
\* one mode is still there after the release call of the other mode.
C34_IndependentFlavors ==
    [][\A l \in Locks :
          /\ UnlockStep(l) =>
                /\ last' = Return("Unlock", TRUE, "nil")
                /\ shared' = shared
                /\ ExclusiveCount(l) = 0 => excl' = excl
          /\ RUnlockStep(l) =>
                /\ last' = Return("RUnlock", TRUE, "nil")
                /\ excl' = excl
                /\ SharedCount(l) = 0 => shared' = shared]_vars

\* RUnlock has just returned nil on the only Lock there is, which holds the
\* exclusive mode at its highest level and no shared level: the mismatched
\* call released nothing.
C34_Witness ==
    /\ last = Return("RUnlock", TRUE, "nil")
    /\ \E l \in OpenLocks :
          /\ \A m \in Locks \ {l} : lockState[m] = "zero"
          /\ ExclusiveCount(l) = MaxCount
          /\ SharedCount(l) = 0

\* The step is a Lock or RLock call of Lock l that returns false.
TryFalse(l) ==
    /\ ~last'.ok
    /\ \/ last'.op = "Lock" /\ (Lock(l) \/ LockFails(l))
       \/ last'.op = "RLock" /\ (RLock(l) \/ RLockFails(l))

C36_FixedAtConstruction ==
    [][\A l \in Locks :
          /\ (lockState[l] = "zero" /\ lockState'[l] = "open") =>
                /\ \A id \in Keys : NewLock(l, id) => lockId'[l] = id
                /\ lockId'[l] \in Keys
                /\ lockConn'[l] \in Conns
                /\ connState'[lockConn'[l]] = "inuse"
          /\ lockState[l] # "zero" =>
                /\ lockId'[l] = lockId[l]
                /\ lockConn'[l] \in {lockConn[l], 0}
                /\ lockConn'[l] = 0 => lockState'[l] = "closed"]_vars

\* Unlock has just returned on an open Lock that holds both modes, on the
\* identifier and on a connection in use, next to a Lock on the same
\* identifier that was closed and has no connection any more.
C36_Witness ==
    /\ last = Return("Unlock", TRUE, "nil")
    /\ \E l \in OpenLocks : \E m \in Locks :
          /\ lockId[l] \in SingleKey
          /\ lockConn[l] \in Conns
          /\ connState[lockConn[l]] = "inuse"
          /\ ExclusiveCount(l) = 1 /\ SharedCount(l) = 1
          /\ lockState[m] = "closed"
          /\ lockId[m] = lockId[l]
          /\ lockConn[m] = 0

\* The Lock whose WaitAndLock call process p is blocked in, if it is.
Blocked(p) == pc[First(p)] \in {"blocked", "blocked2"}

WaitingLock(p) == IF pc[First(p)] = "blocked" THEN First(p) ELSE Second(p)

\* Process p is blocked on an identifier that a Lock of process q holds.
WaitsFor(p, q) ==
    /\ Blocked(p)
    /\ \E m \in {First(q), Second(q)} :
          /\ lockState[m] = "open"
          /\ lockId[m] = lockId[WaitingLock(p)]
          /\ ExclusiveCount(m) > 0

\* Two processes wait for each other.
WaitCycle == \E p \in Procs : \E q \in Procs \ {p} : WaitsFor(p, q) /\ WaitsFor(q, p)

\* The processes that have built a Lock take the identifiers in one order.
SameOrder ==
    \A p \in Procs : \A q \in Procs :
        (pc[First(p)] # "start" /\ pc[First(q)] # "start") =>
            lockId[First(p)] = lockId[First(q)]

\* C37. Consistent ordering prevents deadlock: in every reachable state in
\* which the processes take the two identifiers in the same order, no two
\* processes wait for each other, and as long as a process has not
\* finished some process is able to take a step.
C37_OrderedNoDeadlock ==
    SameOrder =>
        /\ ~WaitCycle
        /\ (\E p \in Procs : pc[First(p)] # "done") => ENABLED NextOrder

\* Two processes take the identifiers in the same order: one holds both
\* and the other is blocked on the first.
C37_Witness ==
    /\ SameOrder
    /\ \E p \in Procs : \E q \in Procs \ {p} :
          /\ pc[First(p)] = "unlock"
          /\ ExclusiveCount(First(p)) = 1 /\ ExclusiveCount(Second(p)) = 1
          /\ pc[First(q)] = "blocked"
          /\ WaitsFor(q, p)

\* C38. A repeated Close is harmless: a step in which Close (or any other
\* method) is called on a closed Lock returns the error of the closed
\* connection and changes no count, no connection of the pool and no other
\* Lock, whoever uses the connection the closed Lock once had.
C38_RepeatedClose ==
    [][\A l \in Locks :
          ConnDone(l) =>
              /\ last' = Return("method", FALSE, "conndone")
              /\ \A c \in Conns :
                    /\ connState'[c] = connState[c]
                    /\ \A k \in Keys : SameCounts(c, k)
              /\ \A m \in Locks :
                    /\ lockState'[m] = lockState[m]
                    /\ lockConn'[m] = lockConn[m]
                    /\ pending'[m] = pending[m]]_vars

\* The call on a closed Lock has just returned its error; two Locks are
\* closed, and the one connection the pool has open is in use by the third
\* Lock, which holds the exclusive mode at its highest level.
C38_Witness ==
    /\ last = Return("method", FALSE, "conndone")
    /\ Cardinality({l \in Locks : lockState[l] = "closed"}) = 2
    /\ \E m \in OpenLocks :
          /\ OpenConns = {lockConn[m]}
          /\ connState[lockConn[m]] = "inuse"
          /\ ExclusiveCount(m) = MaxCount

====
